---- MODULE Spec2Model ----
(***************************************************************************)
(* The two PDB utilities of scripts/util:                                  *)
(*   add_offsite.py  renumber_pdb_residues  (adds an offset to resSeq)     *)
(*   pdb_trimmer.py  trim_pdb_by_residue_range  (removes a residue range)  *)
(* A line is a sequence of one-character strings; a document is the        *)
(* sequence of lines a Python text file yields when iterated: every line   *)
(* but possibly the last ends in "\n".                                     *)
(***************************************************************************)
EXTENDS Integers, Sequences, FiniteSets, TLC

\* ------------------------------------------------------------------ bounds
\* Longest input document, in lines.
MaxLines == 3

\* ------------------------------------------------- Python string primitives
NL == "\n"

\* Characters str.strip() removes (the ASCII whitespace of the alphabet).
Whitespace == {" ", NL, "\t", "\r"}

Digits == {"0", "1", "2", "3", "4", "5", "6", "7", "8", "9"}

Min(a, b) == IF a < b THEN a ELSE b

\* s[a:b] for 0 <= a, 0 <= b: clamped to the string, never raises.
Slice(s, a, b) ==
    IF a >= Min(b, Len(s)) THEN << >> ELSE SubSeq(s, a + 1, Min(b, Len(s)))

\* s[a:]
SliceFrom(s, a) == Slice(s, a, Len(s))

RECURSIVE LStrip(_)
LStrip(s) ==
    IF s = << >> THEN << >>
    ELSE IF Head(s) \in Whitespace THEN LStrip(Tail(s)) ELSE s

RECURSIVE RStrip(_)
RStrip(s) ==
    IF s = << >> THEN << >>
    ELSE IF s[Len(s)] \in Whitespace THEN RStrip(SubSeq(s, 1, Len(s) - 1)) ELSE s

\* str.strip()
Strip(s) == RStrip(LStrip(s))

\* str.startswith(p)
StartsWith(s, p) == Len(s) >= Len(p) /\ SubSeq(s, 1, Len(p)) = p

\* str.startswith(('ATOM', 'HETATM'))
StartsWithAtom(s) ==
    \/ StartsWith(s, <<"A", "T", "O", "M">>)
    \/ StartsWith(s, <<"H", "E", "T", "A", "T", "M">>)

DigitVal(c) ==
    CASE c = "0" -> 0 [] c = "1" -> 1 [] c = "2" -> 2 [] c = "3" -> 3
      [] c = "4" -> 4 [] c = "5" -> 5 [] c = "6" -> 6 [] c = "7" -> 7
      [] c = "8" -> 8 [] c = "9" -> 9

DigitChar(d) ==
    CASE d = 0 -> "0" [] d = 1 -> "1" [] d = 2 -> "2" [] d = 3 -> "3"
      [] d = 4 -> "4" [] d = 5 -> "5" [] d = 6 -> "6" [] d = 7 -> "7"
      [] d = 8 -> "8" [] d = 9 -> "9"

\* The text after an optional sign.
Unsigned(s) == IF s # << >> /\ Head(s) \in {"+", "-"} THEN Tail(s) ELSE s

\* Whether int(s) returns (True) or raises ValueError (False).  int() strips
\* whitespace, takes one optional sign, then digits in which single
\* underscores may separate digits.
IsIntText(t) ==
    LET s == Strip(t)
        u == Unsigned(s)
    IN /\ u # << >>
       /\ \A i \in 1..Len(u) : u[i] \in Digits \cup {"_"}
       /\ u[1] \in Digits
       /\ u[Len(u)] \in Digits
       /\ \A i \in 1..(Len(u) - 1) : ~(u[i] = "_" /\ u[i + 1] = "_")

RECURSIVE NatVal(_, _)
NatVal(u, acc) ==
    IF u = << >> THEN acc
    ELSE IF Head(u) = "_" THEN NatVal(Tail(u), acc)
    ELSE NatVal(Tail(u), 10 * acc + DigitVal(Head(u)))

\* int(s), for a text int() accepts.
IntVal(t) ==
    LET s == Strip(t)
        v == NatVal(Unsigned(s), 0)
    IN IF s # << >> /\ Head(s) = "-" THEN 0 - v ELSE v

RECURSIVE NatStr(_)
NatStr(n) ==
    IF n < 10 THEN <<DigitChar(n)>>
    ELSE Append(NatStr(n \div 10), DigitChar(n % 10))

\* str(n) for an integer.
IntStr(n) == IF n < 0 THEN <<"-">> \o NatStr(0 - n) ELSE NatStr(n)

RECURSIVE Spaces(_)
Spaces(n) == IF n <= 0 THEN << >> ELSE <<" ">> \o Spaces(n - 1)

\* f"{n:4d}" and f"{n:>4}": right-justified in at least 4 characters; a
\* longer numeral is written in full.
Format4(n) == Spaces(4 - Len(IntStr(n))) \o IntStr(n)

\* line[0:6].strip()
RecordName(line) == Strip(Slice(line, 0, 6))

ATOM == <<"A", "T", "O", "M">>
HETATM == <<"H", "E", "T", "A", "T", "M">>
TER == <<"T", "E", "R">>
END == <<"E", "N", "D">>
REMARK == <<"R", "E", "M", "A", "R", "K">>
MODEL == <<"M", "O", "D", "E", "L">>
ENDMDL == <<"E", "N", "D", "M", "D", "L">>
CRYST1 == <<"C", "R", "Y", "S", "T", "1">>
MASTER == <<"M", "A", "S", "T", "E", "R">>
HEADER == <<"H", "E", "A", "D", "E", "R">>

IsAtomRecord(line) == RecordName(line) \in {ATOM, HETATM}


\* ---------------------------------------------------------- input alphabet
\* Fixed-column ATOM/HETATM line: record name (cols 1-6), serial (7-11),
\* atom name (12-17), resName (18-20), chain (22), resSeq (23-26), rest.
AtomLine(name6, serial5, resName3, chain, resSeq, rest) ==
    name6 \o serial5 \o <<" ", " ", "N", " ", " ", " ">> \o resName3
          \o <<" ">> \o <<chain>> \o resSeq \o rest

ALA == <<"A", "L", "A">>
HOH == <<"H", "O", "H">>
Rest == <<"X", NL>>
Atom6 == <<"A", "T", "O", "M", " ", " ">>
Indented6 == <<" ", "A", "T", "O", "M", " ">>

LineA1 == AtomLine(Atom6, <<" ", " ", " ", " ", "1">>, ALA, "A", <<" ", " ", " ", "1">>, Rest)
LineA3 == AtomLine(Atom6, <<" ", " ", " ", " ", "2">>, ALA, "A", <<" ", " ", " ", "3">>, Rest)
LineB9 == AtomLine(HETATM, <<" ", " ", " ", " ", "3">>, HOH, "B", <<" ", " ", " ", "9">>, Rest)
LineStars == AtomLine(Atom6, <<"*", "*", "*", "*", "*">>, ALA, "A", <<" ", " ", " ", "1">>, Rest)
LineIndented == AtomLine(Indented6, <<" ", " ", " ", " ", "4">>, ALA, "A", <<" ", " ", " ", "1">>, Rest)
LineInsertion == AtomLine(Atom6, <<" ", " ", " ", " ", "5">>, ALA, "A", <<"1", "0", "0", "A">>, Rest)
LineBlank == AtomLine(Atom6, <<" ", " ", " ", " ", "6">>, ALA, "A", <<" ", " ", " ", " ">>, Rest)
Line9999 == AtomLine(Atom6, <<" ", " ", " ", " ", "7">>, ALA, "A", <<"9", "9", "9", "9">>, Rest)
LineLeft == AtomLine(Atom6, <<" ", " ", " ", " ", "8">>, ALA, "A", <<"1", "2", " ", " ">>, Rest)
LineZeroPadded == AtomLine(HETATM, <<" ", " ", " ", " ", "9">>, HOH, "B", <<"0", "0", "1", "2">>, Rest)
\* An ATOM line cut off inside the resSeq field: 25 characters.
LineCut == AtomLine(Atom6, <<" ", " ", " ", "1", "0">>, ALA, "A", <<" ", "7">>, <<NL>>)
\* An ATOM line cut off before the chain column.
LineAtomOnly == ATOM \o <<NL>>
LineTER == TER \o <<NL>>
LineEND == END \o <<NL>>
LineREMARK == REMARK \o <<NL>>
LineHEADER == HEADER \o <<NL>>
\* A final line with no line terminator.
LineA1NoNL == SubSeq(LineA1, 1, Len(LineA1) - 1)

TrimLines ==
    {LineA1, LineA3, LineB9, LineStars, LineIndented, LineInsertion, LineBlank,
     LineAtomOnly, LineTER, LineEND, LineREMARK, LineHEADER}

RenumberLines ==
    {LineA1, Line9999, LineLeft, LineZeroPadded, LineInsertion, LineBlank,
     LineCut, LineTER, LineREMARK}

SeqsUpTo(S, n) == UNION {[1..m -> S] : m \in 0..n}

\* Documents of at most MaxLines lines; only the last line may lack "\n".
Docs(S) ==
    SeqsUpTo(S, MaxLines)
        \cup {Append(d, LineA1NoNL) : d \in SeqsUpTo(S, MaxLines - 1)}

Offsets == {-1, 1}

\* chain_id=None, or a chain id string.
NoChain == [isNone |-> TRUE, id |-> << >>]
Chain(c) == [isNone |-> FALSE, id |-> <<c>>]

\* (start_res_id, end_res_id, chain_id) of the trimming calls examined.
TrimArgs ==
    {<<3, 5, NoChain>>, <<3, 5, Chain("A")>>, <<3, 5, Chain("B")>>, <<5, 3, NoChain>>}

\* --------------------------------------------------------- file contents
RECURSIVE Concat(_)
Concat(items) == IF items = << >> THEN << >> ELSE Head(items) \o Concat(Tail(items))

RECURSIVE SplitAt(_, _, _)
SplitAt(text, from, i) ==
    IF i > Len(text)
    THEN IF from > Len(text) THEN << >> ELSE <<SubSeq(text, from, Len(text))>>
    ELSE IF text[i] = NL
         THEN <<SubSeq(text, from, i)>> \o SplitAt(text, i + 1, i + 1)
         ELSE SplitAt(text, from, i + 1)

\* outfile.writelines(items): the strings are written one after another;
\* the lines of the file are what its text splits into at "\n".
WrittenLines(items) == SplitAt(Concat(items), 1, 1)

\* ------------------------------------------------------- add_offsite.py
RESIDUE_NUMBER_START == 22
RESIDUE_NUMBER_END == 26

\* The resSeq text of a line: line[22:26].
ResSeqField(line) == Slice(line, RESIDUE_NUMBER_START, RESIDUE_NUMBER_END)

\* The ATOM/HETATM lines whose resSeq parses: the ones renumbering rewrites.
Transformable(line) == IsAtomRecord(line) /\ IsIntText(ResSeqField(line))

\* One pass of the loop body: the string appended to modified_lines.
RenumberedLine(line, k) ==
    IF IsAtomRecord(line)
    THEN IF IsIntText(ResSeqField(line))
         THEN Slice(line, 0, RESIDUE_NUMBER_START)
                  \o Format4(IntVal(ResSeqField(line)) + k)
                  \o SliceFrom(line, RESIDUE_NUMBER_END)
         ELSE line
    ELSE line

\* ------------------------------------------------------- pdb_trimmer.py
chain_match(c, current_chain_id) == c.isNone \/ current_chain_id = c.id

\* Faulty variant: the start of the interval taken as exclusive.
is_outside_range_exclusive(s, e, n) == ~(s < n /\ n <= e)

is_outside_range(s, e, n) == ~(s <= n /\ n <= e)

\* line[21] raises IndexError on an ATOM/HETATM line of fewer than 22 characters.
TrimRaises(line) == IsAtomRecord(line) /\ Len(line) <= 21

KeepList == {REMARK, MODEL, ENDMDL, CRYST1, MASTER, END}

\* Faulty variant: a TER record is kept without looking at the last kept line.
TrimKeeps_TerUnchecked(line, trimmed, s, e, c) ==
    LET record_type == RecordName(line)
        res_seq_num_str == Strip(Slice(line, 22, 26))
        current_chain_id == Strip(<<line[22]>>)
    IN IF record_type \in {ATOM, HETATM}
       THEN /\ res_seq_num_str # << >>
            /\ IsIntText(res_seq_num_str)
            /\ chain_match(c, current_chain_id)
            /\ is_outside_range(s, e, IntVal(res_seq_num_str))
       ELSE record_type \in KeepList \cup {TER}

\* Whether the loop body appends the line to trimmed_lines.
TrimKeeps(line, trimmed, s, e, c) ==
    LET record_type == RecordName(line)
        res_seq_num_str == Strip(Slice(line, 22, 26))
        current_chain_id == Strip(<<line[22]>>)
    IN IF record_type \in {ATOM, HETATM}
       THEN /\ res_seq_num_str # << >>
            /\ IsIntText(res_seq_num_str)
            /\ chain_match(c, current_chain_id)
            /\ is_outside_range(s, e, IntVal(res_seq_num_str))
       ELSE IF record_type = TER
       THEN trimmed # << >> /\ StartsWithAtom(trimmed[Len(trimmed)])
       ELSE record_type \in KeepList

\* The repair block runs unless the last kept line is the END record.
NeedsRepair(t) == IF t = << >> THEN TRUE ELSE Strip(t[Len(t)]) # END

\* Index (from 0) of the last kept line that starts with ATOM/HETATM, or -1.
RECURSIVE ScanBack(_, _)
ScanBack(t, i) ==
    IF i < 0 THEN -1
    ELSE IF StartsWithAtom(t[i + 1]) THEN i ELSE ScanBack(t, i - 1)

last_atom_index(t) == ScanBack(t, Len(t) - 1)

\* The condition of pdb_trimmer.py:77: it tests the atom line itself.
AppendsTer(t) ==
    /\ last_atom_index(t) # -1
    /\ ~StartsWith(t[last_atom_index(t) + 1], TER)

\* last_line[21] raises IndexError; int(serial) raises ValueError.
RepairRaises(t) ==
    /\ NeedsRepair(t)
    /\ AppendsTer(t)
    /\ LET last_line == t[last_atom_index(t) + 1]
       IN Len(last_line) <= 21 \/ ~IsIntText(Slice(last_line, 6, 11))

\* The exception the repair block raises, when it raises.
RepairException(t) ==
    IF Len(t[last_atom_index(t) + 1]) <= 21 THEN "IndexError" ELSE "ValueError"

ter_line(last_line) ==
    LET serial == Slice(last_line, 6, 11)
        resName == Slice(last_line, 17, 20)
        chainID == <<last_line[22]>>
        resSeq == Slice(last_line, 22, 26)
    IN TER \o <<" ", " ", " ">> \o Format4(IntVal(serial))
           \o <<" ", " ", " ", " ", " ", " ">> \o resName \o <<" ">>
           \o chainID \o resSeq \o <<NL>>

\* trimmed_lines after the repair block (when it does not raise).
Repaired(t) ==
    IF ~NeedsRepair(t) THEN t
    ELSE LET t1 == IF AppendsTer(t)
                   THEN Append(t, ter_line(t[last_atom_index(t) + 1]))
                   ELSE t
         IN IF NeedsRepair(t1)
            THEN Append(t1, LineEND)
            ELSE t1

\* ------------------------------------------------------------------ state
VARIABLES
    tool,            \* "renumber" (add_offsite.py) or "trim" (pdb_trimmer.py)
    D,               \* the document given to the first invocation
    inputDoc,        \* the lines of the file at the input path
    outputDoc,       \* the lines of the file at the output path
    outputExists,    \* whether the output path has been created
    offset,          \* renumber_pdb_residues: offset
    start_res_id,    \* trim_pdb_by_residue_range: start_res_id
    end_res_id,      \* trim_pdb_by_residue_range: end_res_id
    chain_id,        \* trim_pdb_by_residue_range: chain_id
    pc,              \* "start", "reading", "repair", "write", "writing", "returned", "exited"
    infile,          \* input handle: "unopened", "open", "closed"
    outfile,         \* output handle: "unopened", "open", "closed"
    pos,             \* number of input lines the loop has consumed
    modified_lines,  \* add_offsite.py: modified_lines
    trimmed_lines,   \* pdb_trimmer.py: trimmed_lines
    keptFrom,        \* for each entry of trimmed_lines, the input line number it came from (0: synthesized)
    report,          \* what was printed last: "none", "success", "not_found", "unexpected"
    raised,          \* the exception caught by the except clauses, or "none"
    exit_status,     \* status of sys.exit, 0 when the process was not terminated
    invocation       \* 1, or 2 for the inverse renumbering of the first output

vars ==
    <<tool, D, inputDoc, outputDoc, outputExists, offset, start_res_id, end_res_id,
      chain_id, pc, infile, outfile, pos, modified_lines, trimmed_lines, keptFrom,
      report, raised, exit_status, invocation>>

args == <<tool, D, inputDoc, offset, start_res_id, end_res_id, chain_id, invocation>>

Init ==
    /\ tool \in {"renumber", "trim"}
    /\ \/ /\ tool = "renumber"
          /\ D \in Docs(RenumberLines)
          /\ offset \in Offsets
          /\ start_res_id = 0 /\ end_res_id = 0 /\ chain_id = NoChain
       \/ /\ tool = "trim"
          /\ D \in Docs(TrimLines)
          /\ offset = 0
          /\ \E a \in TrimArgs :
                start_res_id = a[1] /\ end_res_id = a[2] /\ chain_id = a[3]
    /\ inputDoc = D
    /\ outputDoc = << >>
    /\ outputExists = FALSE
    /\ pc = "start"
    /\ infile = "unopened"
    /\ outfile = "unopened"
    /\ pos = 0
    /\ modified_lines = << >>
    /\ trimmed_lines = << >>
    /\ keptFrom = << >>
    /\ report = "none"
    /\ raised = "none"
    /\ exit_status = 0
    /\ invocation = 1

\* ------------------------------------------------ renumber_pdb_residues
\* open(input_filename, 'r') succeeds.
RenumberOpenInput ==
    /\ tool = "renumber" /\ pc = "start"
    /\ infile' = "open"
    /\ pc' = "reading"
    /\ UNCHANGED <<args, raised, outputDoc, outputExists, outfile, pos, modified_lines,
                   trimmed_lines, keptFrom, report, exit_status>>

\* Faulty variant: the handlers print and return without sys.exit(1).
RenumberOpenInputFails_NoExit ==
    /\ tool = "renumber" /\ pc = "start"
    /\ \/ report' = "not_found" /\ raised' = "FileNotFoundError"
       \/ report' = "unexpected" /\ raised' = "OSError"
    /\ pc' = "returned"
    /\ UNCHANGED <<args, outputDoc, outputExists, infile, outfile, pos,
                   modified_lines, trimmed_lines, keptFrom, exit_status>>

\* open(input_filename, 'r') raises: FileNotFoundError, or another OSError.
\* Both handlers print and call sys.exit(1).
RenumberOpenInputFails ==
    /\ tool = "renumber" /\ pc = "start"
    /\ \/ report' = "not_found" /\ raised' = "FileNotFoundError"
       \/ report' = "unexpected" /\ raised' = "OSError"
    /\ exit_status' = 1
    /\ pc' = "exited"
    /\ UNCHANGED <<args, outputDoc, outputExists, infile, outfile, pos,
                   modified_lines, trimmed_lines, keptFrom>>

\* One iteration of "for line in infile".
RenumberStep ==
    /\ tool = "renumber" /\ pc = "reading" /\ pos < Len(inputDoc)
    /\ modified_lines' = Append(modified_lines, RenumberedLine(inputDoc[pos + 1], offset))
    /\ pos' = pos + 1
    /\ UNCHANGED <<args, raised, outputDoc, outputExists, pc, infile, outfile,
                   trimmed_lines, keptFrom, report, exit_status>>

\* The loop is exhausted and the with block closes the input.
RenumberCloseInput ==
    /\ tool = "renumber" /\ pc = "reading" /\ pos = Len(inputDoc)
    /\ infile' = "closed"
    /\ pc' = "write"
    /\ UNCHANGED <<args, raised, outputDoc, outputExists, outfile, pos, modified_lines,
                   trimmed_lines, keptFrom, report, exit_status>>

\* open(output_filename, 'w') creates or truncates the file.
RenumberOpenOutput ==
    /\ tool = "renumber" /\ pc = "write"
    /\ outfile' = "open"
    /\ outputDoc' = << >>
    /\ outputExists' = TRUE
    /\ pc' = "writing"
    /\ UNCHANGED <<args, raised, infile, pos, modified_lines, trimmed_lines, keptFrom,
                   report, exit_status>>

\* open(output_filename, 'w') raises: except Exception prints, sys.exit(1).
RenumberOpenOutputFails ==
    /\ tool = "renumber" /\ pc = "write"
    /\ report' = "unexpected"
    /\ raised' = "OSError"
    /\ exit_status' = 1
    /\ pc' = "exited"
    /\ UNCHANGED <<args, outputDoc, outputExists, infile, outfile, pos,
                   modified_lines, trimmed_lines, keptFrom>>

\* outfile.writelines(modified_lines), close, the success messages.
RenumberWrite ==
    /\ tool = "renumber" /\ pc = "writing"
    /\ outputDoc' = WrittenLines(modified_lines)
    /\ outfile' = "closed"
    /\ report' = "success"
    /\ pc' = "returned"
    /\ UNCHANGED <<args, raised, outputExists, infile, pos, modified_lines, trimmed_lines,
                   keptFrom, exit_status>>

\* renumber(renumber(D, k), -k): the tool is run again on its own output
\* with the inverse offset.
RenumberInverse ==
    /\ tool = "renumber" /\ pc = "returned" /\ invocation = 1
    /\ invocation' = 2
    /\ inputDoc' = outputDoc
    /\ offset' = 0 - offset
    /\ outputDoc' = << >>
    /\ outputExists' = FALSE
    /\ pc' = "start"
    /\ infile' = "unopened"
    /\ outfile' = "unopened"
    /\ pos' = 0
    /\ modified_lines' = << >>
    /\ report' = "none"
    /\ UNCHANGED <<raised, tool, D, start_res_id, end_res_id, chain_id, trimmed_lines,
                   keptFrom, exit_status>>

\* -------------------------------------------- trim_pdb_by_residue_range
TrimOpenInput ==
    /\ tool = "trim" /\ pc = "start"
    /\ infile' = "open"
    /\ pc' = "reading"
    /\ UNCHANGED <<args, raised, outputDoc, outputExists, outfile, pos, modified_lines,
                   trimmed_lines, keptFrom, report, exit_status>>

\* open(input_pdb_path, 'r') raises: both handlers print and the function returns.
TrimOpenInputFails ==
    /\ tool = "trim" /\ pc = "start"
    /\ \/ report' = "not_found" /\ raised' = "FileNotFoundError"
       \/ report' = "unexpected" /\ raised' = "OSError"
    /\ pc' = "returned"
    /\ UNCHANGED <<args, outputDoc, outputExists, infile, outfile, pos,
                   modified_lines, trimmed_lines, keptFrom, exit_status>>

\* One iteration of "for line in infile" that does not raise.
TrimStep ==
    /\ tool = "trim" /\ pc = "reading" /\ pos < Len(inputDoc)
    /\ LET line == inputDoc[pos + 1]
       IN /\ ~TrimRaises(line)
          /\ IF TrimKeeps(line, trimmed_lines, start_res_id, end_res_id, chain_id)
             THEN /\ trimmed_lines' = Append(trimmed_lines, line)
                  /\ keptFrom' = Append(keptFrom, pos + 1)
             ELSE UNCHANGED <<trimmed_lines, keptFrom>>
    /\ pos' = pos + 1
    /\ UNCHANGED <<args, raised, outputDoc, outputExists, pc, infile, outfile,
                   modified_lines, report, exit_status>>

\* line[21] raises IndexError: the with block closes the input, except
\* Exception prints, the function returns.
TrimStepRaises ==
    /\ tool = "trim" /\ pc = "reading" /\ pos < Len(inputDoc)
    /\ TrimRaises(inputDoc[pos + 1])
    /\ infile' = "closed"
    /\ report' = "unexpected"
    /\ raised' = "IndexError"
    /\ pc' = "returned"
    /\ UNCHANGED <<args, outputDoc, outputExists, outfile, pos, modified_lines,
                   trimmed_lines, keptFrom, exit_status>>

TrimCloseInput ==
    /\ tool = "trim" /\ pc = "reading" /\ pos = Len(inputDoc)
    /\ infile' = "closed"
    /\ pc' = "repair"
    /\ UNCHANGED <<args, raised, outputDoc, outputExists, outfile, pos, modified_lines,
                   trimmed_lines, keptFrom, report, exit_status>>

\* The termination repair, pdb_trimmer.py:67-89.
TrimRepair ==
    /\ tool = "trim" /\ pc = "repair"
    /\ ~RepairRaises(trimmed_lines)
    /\ trimmed_lines' = Repaired(trimmed_lines)
    /\ keptFrom' = keptFrom \o [i \in 1..(Len(Repaired(trimmed_lines)) - Len(trimmed_lines)) |-> 0]
    /\ pc' = "write"
    /\ UNCHANGED <<args, raised, outputDoc, outputExists, infile, outfile, pos,
                   modified_lines, report, exit_status>>

\* The repair raises (int(serial)): except Exception prints, the function returns.
TrimRepairRaises ==
    /\ tool = "trim" /\ pc = "repair"
    /\ RepairRaises(trimmed_lines)
    /\ report' = "unexpected"
    /\ raised' = RepairException(trimmed_lines)
    /\ pc' = "returned"
    /\ UNCHANGED <<args, outputDoc, outputExists, infile, outfile, pos,
                   modified_lines, trimmed_lines, keptFrom, exit_status>>

TrimOpenOutput ==
    /\ tool = "trim" /\ pc = "write"
    /\ outfile' = "open"
    /\ outputDoc' = << >>
    /\ outputExists' = TRUE
    /\ pc' = "writing"
    /\ UNCHANGED <<args, raised, infile, pos, modified_lines, trimmed_lines, keptFrom,
                   report, exit_status>>

TrimOpenOutputFails ==
    /\ tool = "trim" /\ pc = "write"
    /\ report' = "unexpected"
    /\ raised' = "OSError"
    /\ pc' = "returned"
    /\ UNCHANGED <<args, outputDoc, outputExists, infile, outfile, pos,
                   modified_lines, trimmed_lines, keptFrom, exit_status>>

TrimWrite ==
    /\ tool = "trim" /\ pc = "writing"
    /\ outputDoc' = WrittenLines(trimmed_lines)
    /\ outfile' = "closed"
    /\ report' = "success"
    /\ pc' = "returned"
    /\ UNCHANGED <<args, raised, outputExists, infile, pos, modified_lines, trimmed_lines,
                   keptFrom, exit_status>>

Next ==
    \/ RenumberOpenInput
    \/ RenumberOpenInputFails
    \/ RenumberStep
    \/ RenumberCloseInput
    \/ RenumberOpenOutput
    \/ RenumberOpenOutputFails
    \/ RenumberWrite
    \/ RenumberInverse
    \/ TrimOpenInput
    \/ TrimOpenInputFails
    \/ TrimStep
    \/ TrimStepRaises
    \/ TrimCloseInput
    \/ TrimRepair
    \/ TrimRepairRaises
    \/ TrimOpenOutput
    \/ TrimOpenOutputFails
    \/ TrimWrite

Spec == Init /\ [][Next]_vars

\* ---------------------------------------------------------------- claims
\* The tool wrote its output and printed the success messages.
TrimDone == tool = "trim" /\ pc = "returned" /\ report = "success"
RenumberDone == tool = "renumber" /\ pc = "returned" /\ report = "success"

\* Input line i of the trimmer's document was appended to trimmed_lines.
Kept(i) == \E j \in 1..Len(keptFrom) : keptFrom[j] = i

\* The chain id of an ATOM/HETATM line (column 22, trimmed).
ChainOf(line) == Strip(Slice(line, 21, 22))

\* The line is in the requested chain scope: no chain given, or its chain.
InScope(line) == chain_id.isNone \/ ChainOf(line) = chain_id.id

\* The residue number lies in the closed interval [start, end].
InRange(line) ==
    /\ start_res_id <= IntVal(ResSeqField(line))
    /\ IntVal(ResSeqField(line)) <= end_res_id

\* C1: an ATOM/HETATM line with an integer resSeq is removed exactly when it
\* is in the chain scope and its resSeq lies in [start, end]; every other
\* such line is kept.
C1_RemovedExactlyInScopeAndRange ==
    TrimDone =>
        \A i \in 1..Len(D) :
            Transformable(D[i]) => (~Kept(i) <=> (InScope(D[i]) /\ InRange(D[i])))

\* C2: the written document holds no ATOM/HETATM line that is in the chain
\* scope and whose integer resSeq lies in [start, end].
C2_NoScopedInRangeLineWritten ==
    TrimDone =>
        \A j \in 1..Len(outputDoc) :
            Transformable(outputDoc[j])
                => ~(InScope(outputDoc[j]) /\ InRange(outputDoc[j]))

\* C2 witness: lines in scope and range were read, others survive and are
\* written.
C2_Witness ==
    /\ TrimDone
    /\ \E i \in 1..Len(D) : Transformable(D[i]) /\ InScope(D[i]) /\ InRange(D[i])
    /\ \E j \in 1..Len(outputDoc) : Transformable(outputDoc[j])

\* C3: whenever an ATOM/HETATM line survives, the written document ends with
\* a TER record followed by the END record.
C3_EndsInTerEnd ==
    (TrimDone /\ \E i \in 1..Len(D) : IsAtomRecord(D[i]) /\ Kept(i)) =>
        /\ Len(outputDoc) >= 2
        /\ RecordName(outputDoc[Len(outputDoc)]) = END
        /\ RecordName(outputDoc[Len(outputDoc) - 1]) = TER

\* C4: after renumbering with k and renumbering the output with -k, every
\* ATOM/HETATM line of D with an integer resSeq is back, character for
\* character, at its place.
C4_RoundTrip ==
    (RenumberDone /\ invocation = 2) =>
        \A i \in 1..Len(D) :
            Transformable(D[i]) => (i <= Len(outputDoc) /\ outputDoc[i] = D[i])

\* C5: a transformed line keeps its length, and every character outside
\* columns 23-26 (the line terminator included) stays where it was.
C5_ColumnsInvariant ==
    tool = "renumber" =>
        \A i \in 1..Len(modified_lines) :
            Transformable(inputDoc[i]) =>
                /\ Len(modified_lines[i]) = Len(inputDoc[i])
                /\ \A c \in 1..Len(inputDoc[i]) :
                      (c <= RESIDUE_NUMBER_START \/ c > RESIDUE_NUMBER_END)
                          => modified_lines[i][c] = inputDoc[i][c]

\* C6: the written document has as many lines as the input, and every line
\* that is not a transformable ATOM/HETATM line is written unchanged at its
\* position.
C6_LineCountAndPassThrough ==
    RenumberDone =>
        /\ Len(outputDoc) = Len(inputDoc)
        /\ \A i \in 1..Len(inputDoc) :
              ~Transformable(inputDoc[i])
                  => (i <= Len(outputDoc) /\ outputDoc[i] = inputDoc[i])

\* C7: with a readable input and a writable output (no I/O error, no line cut
\* off before the chain column), a run ends with the output written and
\* success reported, whatever the serial and resSeq texts.
C7_NoErrorPathOnBadField ==
    (pc \in {"returned", "exited"}
        /\ raised \notin {"FileNotFoundError", "OSError", "IndexError"}) =>
        (report = "success" /\ outputExists)

\* C8: the output is opened only after the input was read to its end and
\* closed; when the input cannot be opened the output path is untouched,
\* the renumberer has exited with status 1 and the trimmer has returned
\* with no failure status.
C8_ReadBeforeWrite ==
    /\ (outfile # "unopened" \/ outputExists \/ pc \in {"write", "writing"})
           => (infile = "closed" /\ pos = Len(inputDoc))
    /\ (raised # "none" /\ infile = "unopened") =>
           /\ ~outputExists /\ outputDoc = << >> /\ outfile = "unopened"
           /\ tool = "renumber" => (pc = "exited" /\ exit_status = 1)
           /\ tool = "trim" => (pc = "returned" /\ exit_status = 0)

\* C8 witness: the renumberer failed to open its input.
C8_Witness ==
    tool = "renumber" /\ raised = "FileNotFoundError" /\ infile = "unopened"

\* Line number of the last TER record before line i of doc, or 0.
RECURSIVE PrevTer(_, _)
PrevTer(doc, i) ==
    IF i <= 1 THEN 0
    ELSE IF RecordName(doc[i - 1]) = TER THEN i - 1 ELSE PrevTer(doc, i - 1)

\* The ATOM/HETATM lines of the block line i terminates.
BlockOf(doc, i) == {m \in (PrevTer(doc, i) + 1)..(i - 1) : IsAtomRecord(doc[m])}

\* C9: a kept input TER directly follows a kept ATOM/HETATM line (so it is
\* never first, nor after a kept TER or metadata line), and a TER whose atom
\* block was entirely removed is dropped.
C9_TerOnlyAfterKeptAtom ==
    tool = "trim" =>
        /\ \A j \in 1..Len(keptFrom) :
              (keptFrom[j] # 0 /\ RecordName(inputDoc[keptFrom[j]]) = TER)
                  => (j > 1 /\ keptFrom[j - 1] # 0
                            /\ IsAtomRecord(inputDoc[keptFrom[j - 1]]))
        /\ \A i \in 1..pos :
              (RecordName(inputDoc[i]) = TER
                  /\ \A m \in BlockOf(inputDoc, i) : ~Kept(m))
                  => ~Kept(i)

\* C9 witness: the filter has dropped the TER of a block whose atoms were all
\* removed, and has kept a later line.
C9_Witness ==
    /\ tool = "trim"
    /\ \E i \in 1..pos :
          /\ RecordName(inputDoc[i]) = TER
          /\ BlockOf(inputDoc, i) # {}
          /\ \A m \in BlockOf(inputDoc, i) : ~Kept(m)
          /\ ~Kept(i)
          /\ \E m \in (i + 1)..pos : Kept(m)

\* C10: the written document never holds two TER records in a row.
C10_NoAdjacentTer ==
    TrimDone =>
        \A j \in 1..(Len(outputDoc) - 1) :
            ~(RecordName(outputDoc[j]) = TER /\ RecordName(outputDoc[j + 1]) = TER)
====
